---------------------------- MODULE Spec2Model ----------------------------
(***************************************************************************)
(* A model of the surf park pricing scraper (src/scraper.py).              *)
(*                                                                         *)
(* Money is held in integer cents (119.0 USD is 11900), exchange rates in  *)
(* hundredths (1.27 is 127), and a numeric literal of the page text as the *)
(* exact decimal num / den.  Python's None is the string "None".  A price  *)
(* map (a dict tier -> price) is a function whose DOMAIN is a subset of    *)
(* LEVELS; texts and labels are TLA+ strings, scanned character by         *)
(* character as the regular expressions of the source scan them.           *)
(***************************************************************************)
EXTENDS Integers, Sequences, FiniteSets, TLC

VARIABLES
    pc,         \* position of the program (of main, or of the function applied)
    run,        \* number of completed runs of main
    idx,        \* scrape_all: index into PARKS of the next park of the loop
    live,       \* number of fetches that returned a page so far
    results,    \* scrape_all: the list `results` of the current run
    returned,   \* what scrape_park returned for each park of the current run
    last,       \* the latest call of scrape_park: its input and what it returned
    file,       \* price_history.json: NoFile, or the stored history
    averages,   \* price_averages.json: the latest summary
    name,       \* categorize_session: the label it is applied to
    level,      \* categorize_session: its result
    text,       \* extract_prices_from_text: the text it is applied to
    currency,   \* extract_prices_from_text, parser_func: the currency applied with
    prices,     \* extract_prices_from_text: its result
    parser_name,    \* scrape_park: the name the parser table is looked up with
    html,           \* parser_func: the page it is applied to
    parse_result    \* parser_func: its result

mainVars == <<pc, run, idx, live, results, returned, last, file, averages>>
catVars == <<name, level>>
extVars == <<text, currency, prices>>
parseVars == <<parser_name, html, parse_result>>
vars == <<pc, run, idx, live, results, returned, last, file, averages,
          name, level, text, currency, prices, parser_name, html, parse_result>>

None == "None"
LEVELS == <<"beginner", "intermediate", "advanced">>
Tiers == {LEVELS[k] : k \in 1..Len(LEVELS)}
EmptyMap == [t \in {} |-> 0]

\* dict.update / prices[level] = price
Put(m, t, v) == [u \in (DOMAIN m) \cup {t} |-> IF u = t THEN v ELSE m[u]]

-----------------------------------------------------------------------------
(* Strings *)

Lower == "abcdefghijklmnopqrstuvwxyz"
UpperAlpha == "ABCDEFGHIJKLMNOPQRSTUVWXYZ"
Digits == "0123456789"

\* Python's `w in s` for strings
Contains(s, w) ==
    \E i \in 1..(Len(s) - Len(w) + 1) : SubSeq(s, i, i + Len(w) - 1) = w

\* s[i:].startswith(w), positions counted from 1
StartsAt(s, i, w) ==
    /\ i >= 1
    /\ i + Len(w) - 1 <= Len(s)
    /\ SubSeq(s, i, i + Len(w) - 1) = w

CharAt(s, i) == SubSeq(s, i, i)

UpperChar(c) ==
    IF \E i \in 1..Len(Lower) : CharAt(Lower, i) = c
    THEN CharAt(UpperAlpha, CHOOSE i \in 1..Len(Lower) : CharAt(Lower, i) = c)
    ELSE c

\* str.upper(), one half of the string after the other
RECURSIVE upper(_)
upper(s) ==
    IF Len(s) = 0 THEN ""
    ELSE IF Len(s) = 1 THEN UpperChar(s)
    ELSE LET h == Len(s) \div 2
         IN  upper(SubSeq(s, 1, h)) \o upper(SubSeq(s, h + 1, Len(s)))

IsDigit(c) == \E i \in 1..Len(Digits) : CharAt(Digits, i) = c
DigitVal(c) == (CHOOSE i \in 1..Len(Digits) : CharAt(Digits, i) = c) - 1

-----------------------------------------------------------------------------
(* categorize_session *)

skip_words ==
    <<"GIFT", "VOUCHER", "MERCH", "CABANA", "BEACH PASS", "LODGING",
      "ACCOMMODATION", "LESSON ONLY", "COACHING ONLY", "CAMP", "ADAPTIVE",
      "BODYBOARD", "BOOGIE", "SPECTATOR", "WETSUIT", "RENTAL",
      "VISITOR", "PARKING", "LOCKER", "MEMBERSHIP", "PACKAGE">>

advanced_words ==
    <<"ADVANCED", "EXPERT", "PRO ", "PRO BARREL",
      "HIGH PERFORMANCE", "BARREL", "MANOEUVRE",
      "TURNS 3", "TURNS 2", "V-LAND", "VLAND",
      "LOWERS", "RADICAL", "TUBE", "SLAB",
      "LEVEL 3", "LEVEL III">>

intermediate_words ==
    <<"INTERMEDIATE", "PROGRESSIVE", "CRUISER",
      "TURNS ", "NOVICE", "IMPROVER", "SAN O",
      "MALIBU", "THE BU", "A-FRAME", "AFRAME",
      "LEVEL 2", "LEVEL II">>

beginner_words ==
    <<"BEGINNER", "LEARN TO SURF", "FIRST WAVE",
      "INTRO", "STARTER", "FIRST-TIMER", "FIRSTTIMER",
      "ROOKIE", "WHITEWATER", "WHITE WATER",
      "LEVEL 1", "LEVEL I ", "KIDS">>

\* any(w in name for w in words)
AnyIn(words, s) == \E k \in 1..Len(words) : Contains(s, words[k])

\* The same tests with the intermediate list consulted before the advanced one.
categorize_session_intermediate_first(label) ==
    LET n == upper(label) IN
    IF AnyIn(skip_words, n) THEN None
    ELSE IF AnyIn(intermediate_words, n) THEN "intermediate"
    ELSE IF AnyIn(advanced_words, n) THEN "advanced"
    ELSE IF AnyIn(beginner_words, n) THEN "beginner"
    ELSE None

categorize_session(label) ==
    LET n == upper(label) IN
    IF AnyIn(skip_words, n) THEN None
    ELSE IF AnyIn(advanced_words, n) THEN "advanced"
    ELSE IF AnyIn(intermediate_words, n) THEN "intermediate"
    ELSE IF AnyIn(beginner_words, n) THEN "beginner"
    ELSE None

-----------------------------------------------------------------------------
(* Numbers *)

FX_RATES == [USD |-> 100, GBP |-> 127, EUR |-> 109]

\* FX_RATES.get(currency, 1.0), in hundredths
FxOf(cur) == IF cur \in DOMAIN FX_RATES THEN FX_RATES[cur] ELSE 100

\* round(a / b) to the nearest integer (a >= 0, b > 0).  Python rounds the
\* binary float: away from an exact tie the result is the one below; on an
\* exact decimal tie (12.345 to two places) the float lies to one side of
\* the tie and Python follows it, where this operator goes to the even
\* neighbour.  The inputs of the specifications below hold no such tie.
RoundHalfEven(a, b) ==
    LET q == a \div b
        r == a % b
    IN  IF 2 * r < b THEN q
        ELSE IF 2 * r > b THEN q + 1
        ELSE IF q % 2 = 0 THEN q ELSE q + 1

\* round(price_local * fx, 2) in cents, for price_local = num / den
ToUsdCents(num, den, fx) == RoundHalfEven(num * fx, den)

RECURSIVE Pow10(_)
Pow10(n) == IF n = 0 THEN 1 ELSE 10 * Pow10(n - 1)

\* The digits of s[i..j] read as a decimal integer, commas skipped
\* (str.replace(",", "") followed by the integer part of float()).
RECURSIVE DigitsValue(_, _, _, _)
DigitsValue(s, i, j, acc) ==
    IF i > j THEN acc
    ELSE IF IsDigit(CharAt(s, i))
         THEN DigitsValue(s, i + 1, j, 10 * acc + DigitVal(CharAt(s, i)))
         ELSE DigitsValue(s, i + 1, j, acc)

CountDigits(s, i, j) == Cardinality({k \in i..j : IsDigit(CharAt(s, k))})

\* The position of the "." of a literal, Len(g) + 1 if it has none
DotOf(g) ==
    IF \E k \in 1..Len(g) : CharAt(g, k) = "."
    THEN CHOOSE k \in 1..Len(g) : CharAt(g, k) = "."
    ELSE Len(g) + 1

\* The literal g with its "." at dot, as num / den
Decimal(g, dot) ==
    IF CountDigits(g, 1, Len(g)) = 0 THEN [ok |-> FALSE, num |-> 0, den |-> 1]
    ELSE [ok |-> TRUE,
          num |-> DigitsValue(g, 1, dot - 1, 0) * Pow10(CountDigits(g, dot + 1, Len(g)))
                    + DigitsValue(g, dot + 1, Len(g), 0),
          den |-> Pow10(CountDigits(g, dot + 1, Len(g)))]

\* float(g.replace(",", "")) for a literal g made of digits, commas and at
\* most one "." : [ok, num, den] with value num / den, ok = FALSE for the
\* literals on which float() raises ValueError (no digit at all).
ParseFloat(g) == Decimal(g, DotOf(g))

-----------------------------------------------------------------------------
(* Regular expression scanning.  Positions in a text are counted from 1;   *)
(* each piece of an expression is an operator from the position it is      *)
(* tried at to the position after what it consumed, 0 when it does not     *)
(* match (and from 0 to 0, so that pieces compose left to right).  A match *)
(* is [start, end, group] with the 0-based start and exclusive end of      *)
(* Python's match.start(), match.end(), so that text[a:b] is               *)
(* SubSeq(text, a + 1, b); `aux` is the second thing a match captures.     *)

\* The character classes \s, \d, [\d,] and, under re.IGNORECASE, [123I]
WS == {" ", "\n", "\t"}
DIGIT == {CharAt(Digits, k) : k \in 1..Len(Digits)}
DIGIT_COMMA == DIGIT \cup {","}
L123I == {"1", "2", "3", "I", "i"}

\* The end (1-based, exclusive) of the longest run of characters of C that
\* starts at position j of s
SpanEnd(s, j, C) ==
    CHOOSE k \in j..(Len(s) + 1) :
        /\ \A m \in j..(k - 1) : CharAt(s, m) \in C
        /\ k = Len(s) + 1 \/ CharAt(s, k) \notin C

\* The same for the characters outside C
SpanEndNot(s, j, C) ==
    CHOOSE k \in j..(Len(s) + 1) :
        /\ \A m \in j..(k - 1) : CharAt(s, m) \notin C
        /\ k = Len(s) + 1 \/ CharAt(s, k) \in C

\* A literal under re.IGNORECASE (W is written in upper case)
LitAtI(s, i, W) ==
    /\ i >= 1
    /\ i + Len(W) - 1 <= Len(s)
    /\ upper(SubSeq(s, i, i + Len(W) - 1)) = W

\* w, and W under re.IGNORECASE
Lit(s, j, w) == IF j # 0 /\ StartsAt(s, j, w) THEN j + Len(w) ELSE 0
LitI(s, j, W) == IF j # 0 /\ LitAtI(s, j, W) THEN j + Len(W) ELSE 0

\* w?
OptLit(s, j, w) == IF j # 0 /\ StartsAt(s, j, w) THEN j + Len(w) ELSE j

\* (?:ws[1]|ws[2]|...), and the same under re.IGNORECASE
Alt(s, j, ws) ==
    IF j # 0 /\ \E k \in 1..Len(ws) : StartsAt(s, j, ws[k])
    THEN j + Len(ws[CHOOSE k \in 1..Len(ws) :
                       /\ StartsAt(s, j, ws[k])
                       /\ \A h \in 1..(k - 1) : ~StartsAt(s, j, ws[h])])
    ELSE 0
AltI(s, j, ws) ==
    IF j # 0 /\ \E k \in 1..Len(ws) : LitAtI(s, j, ws[k])
    THEN j + Len(ws[CHOOSE k \in 1..Len(ws) :
                       /\ LitAtI(s, j, ws[k])
                       /\ \A h \in 1..(k - 1) : ~LitAtI(s, j, ws[h])])
    ELSE 0

\* [C], [^C], [C]*, [^C]* and [C]+
Class(s, j, C) == IF j # 0 /\ j <= Len(s) /\ CharAt(s, j) \in C THEN j + 1 ELSE 0
ClassNot(s, j, C) == IF j # 0 /\ j <= Len(s) /\ CharAt(s, j) \notin C THEN j + 1 ELSE 0
Star(s, j, C) == IF j = 0 THEN 0 ELSE SpanEnd(s, j, C)
StarNot(s, j, C) == IF j = 0 THEN 0 ELSE SpanEndNot(s, j, C)
Plus(s, j, C) == Star(s, Class(s, j, C), C)

\* A greedy optional piece: where it ends if it matches, where it was tried
\* if not
Else(e, j) == IF e # 0 THEN e ELSE j

NoMatch == [ok |-> FALSE, start |-> 0, end |-> 0, group |-> "", aux |-> ""]

\* The match tried at i that ends before e and captured s[a..b-1] and aux
Match(s, i, e, a, b, aux) ==
    IF e = 0 THEN NoMatch
    ELSE [ok |-> TRUE, start |-> i - 1, end |-> e - 1,
          group |-> SubSeq(s, a, b - 1), aux |-> aux]

\* The match tried at i whose group, from a on, is the last thing it consumed
MatchGroup(s, i, a, e, aux) == Match(s, i, e, a, e, aux)

\* [\d,]+\.?\d* from a on
PriceTail(s, a) == Star(s, OptLit(s, Plus(s, a, DIGIT_COMMA), "."), DIGIT)

\* SYMBOL\s*([\d,]+\.?\d*)   (extract_prices_from_text)
PriceMatchAt(s, i, symbol) ==
    LET a == Star(s, Lit(s, i, symbol), WS) IN MatchGroup(s, i, a, PriceTail(s, a), "")

\* The leftmost of the matches tried at each position, or NoMatch: re.search
FirstMatch(ms) ==
    IF \E i \in DOMAIN ms : ms[i].ok
    THEN ms[CHOOSE i \in DOMAIN ms : ms[i].ok /\ \A h \in DOMAIN ms : ms[h].ok => i <= h]
    ELSE NoMatch

\* re.finditer(re.escape(symbol) + r'\s*([\d,]+\.?\d*)', s), from the
\* 1-based position p on: the non-overlapping matches, left to right.
RECURSIVE PriceFindIter(_, _, _)
PriceFindRest(s, symbol, m) ==
    IF m.ok THEN <<m>> \o PriceFindIter(s, symbol, m.end + 1) ELSE <<>>
PriceFindIter(s, symbol, p) ==
    PriceFindRest(s, symbol, FirstMatch([i \in p..Len(s) |-> PriceMatchAt(s, i, symbol)]))

Max(a, b) == IF a >= b THEN a ELSE b
Min(a, b) == IF a <= b THEN a ELSE b

\* text[a:b] for 0 <= a, b <= len(text)
Slice(s, a, b) == SubSeq(s, a + 1, b)

-----------------------------------------------------------------------------
(* extract_prices_from_text *)

SYMBOLS == [USD |-> "$", GBP |-> "£", EUR |-> "€"]

SymbolOf(cur) == IF cur \in DOMAIN SYMBOLS THEN SYMBOLS[cur] ELSE "$"

\* text[start:end].upper() around a match: 150 characters before, 50 after
ContextOf(s, m) ==
    Slice(s, Max(0, m.start - 150), Min(Len(s), m.end + 50))

\* if price_local < 10 or price_local > 500: continue
price_out_of_band(num, den) == num < 10 * den \/ num > 500 * den

\* if level and (level not in prices or price_usd < prices[level]):
\*     prices[level] = price_usd
keep_cheapest(m, t, v) ==
    IF t # None /\ (t \notin DOMAIN m \/ v < m[t]) THEN Put(m, t, v) ELSE m

\* One iteration of the loop over the matches, v being float() of the token
extract_token(acc, s, fx, m, v) ==
    IF ~v.ok THEN acc
    ELSE IF price_out_of_band(v.num, v.den) THEN acc
    ELSE keep_cheapest(acc, categorize_session(upper(ContextOf(s, m))),
                       ToUsdCents(v.num, v.den, fx))

extract_step(acc, s, fx, m) == extract_token(acc, s, fx, m, ParseFloat(m.group))

RECURSIVE extract_loop(_, _, _, _, _)
extract_loop(acc, s, fx, ms, k) ==
    IF k > Len(ms) THEN acc
    ELSE extract_loop(extract_step(acc, s, fx, ms[k]), s, fx, ms, k + 1)

extract_prices_from_text(s, cur) ==
    extract_loop(EmptyMap, s, FxOf(cur), PriceFindIter(s, SymbolOf(cur), 1), 1)

-----------------------------------------------------------------------------
(* The regular expressions of the venue parsers.  Each XMatchAt(s, i) is   *)
(* the match of the expression X tried at the 1-based position i, or       *)
(* NoMatch.                                                                *)

\* [\$\xa3£€]\s*([\d,]+\.?\d*)   (parse_wave7)
AnyPriceMatchAt(s, i) ==
    LET a == Star(s, Alt(s, i, <<"$", "£", "€">>), WS) IN
    MatchGroup(s, i, a, PriceTail(s, a), "")

\* (?:Starts at|from)\s*\$([\d,]+)   re.IGNORECASE   (parse_waco)
WacoMatchAt(s, i) ==
    LET a == Lit(s, Star(s, AltI(s, i, <<"STARTS AT", "FROM">>), WS), "$") IN
    MatchGroup(s, i, a, Plus(s, a, DIGIT_COMMA), "")

\* [^$]*\$([\d]+) continued from the 1-based position e, for a match that
\* started at i and captured aux
DollarAmountAfter(s, i, e, aux) ==
    LET a == Lit(s, StarNot(s, e, {"$"}), "$") IN
    MatchGroup(s, i, a, Plus(s, a, DIGIT), aux)

\* Level\s*[123I]+ | Learn to Surf | San O | Malibu | Lowers | V.?Land :
\* the 1-based position after the alternative found at i, or 0
RevelPrefixEnd(s, i) ==
    Else(Plus(s, Star(s, LitI(s, i, "LEVEL"), WS), L123I),
         Else(AltI(s, i, <<"LEARN TO SURF", "SAN O", "MALIBU", "LOWERS">>),
              Else(LitI(s, ClassNot(s, LitI(s, i, "V"), {"\n"}), "LAND"),
                   LitI(s, LitI(s, i, "V"), "LAND"))))

\* (?:Level\s*[123I]+|Learn to Surf|San O|Malibu|Lowers|V.?Land)[^$]*\$([\d]+)
\* re.IGNORECASE   (parse_revel)
RevelMatchAt(s, i) == DollarAmountAfter(s, i, RevelPrefixEnd(s, i), "")

\* (beginner|intermediate|advanced|expert)[^$]*\$([\d]+)   re.IGNORECASE
\* (parse_palmsprings); aux is group(1).lower()
PalmSpringsMatchAt(s, i) ==
    LET e == AltI(s, i, <<"BEGINNER", "INTERMEDIATE", "ADVANCED", "EXPERT">>) IN
    DollarAmountAfter(s, i, e,
        CHOOSE w \in {"beginner", "intermediate", "advanced", "expert"} :
            upper(w) = upper(SubSeq(s, i, e - 1)))

\* \$([\d]+)\s*(?:per|/)\s*(?:person|session|surfer)   re.IGNORECASE
\* (parse_skudin)
SkudinPerMatchAt(s, i) ==
    LET b == Plus(s, Lit(s, i, "$"), DIGIT) IN
    Match(s, i,
          AltI(s, Star(s, AltI(s, Star(s, b, WS), <<"PER", "/">>), WS),
               <<"PERSON", "SESSION", "SURFER">>),
          i + 1, b, "")

\* The second group of the range, tried after the first group ended before b
SkudinRangeHigh(s, b) ==
    Lit(s, Star(s, Alt(s, Star(s, b, WS), <<"to", "-">>), WS), "$")

\* \$([\d]+)\s*(?:to|-)\s*\$([\d]+)   (parse_skudin); aux is the second group
SkudinRangeMatchAt(s, i) ==
    LET b == Plus(s, Lit(s, i, "$"), DIGIT)
        a == SkudinRangeHigh(s, b)
        e == Plus(s, a, DIGIT)
    IN  Match(s, i, e, i + 1, b, SubSeq(s, a, e - 1))

\* SYMBOL\s*([\d]+(?:SEP\d+)?) with SEP one of the characters of seps:
\* \xa3\s*([\d]+(?:\.\d+)?) (parse_thewave), €\s*([\d]+(?:[.,]\d+)?)
\* (parse_surftown)
DecimalMatchAt(s, i, symbol, seps) ==
    LET a == Star(s, Lit(s, i, symbol), WS)
        b == Plus(s, a, DIGIT)
    IN  MatchGroup(s, i, a, Else(Plus(s, Class(s, b, seps), DIGIT), b), "")

MatchAt(kind, s, i) ==
    CASE kind = "wave7" -> AnyPriceMatchAt(s, i)
      [] kind = "waco" -> WacoMatchAt(s, i)
      [] kind = "revel" -> RevelMatchAt(s, i)
      [] kind = "palmsprings" -> PalmSpringsMatchAt(s, i)
      [] kind = "skudin_per" -> SkudinPerMatchAt(s, i)
      [] kind = "skudin_range" -> SkudinRangeMatchAt(s, i)
      [] kind = "thewave" -> DecimalMatchAt(s, i, "£", {"."})
      [] kind = "surftown" -> DecimalMatchAt(s, i, "€", {".", ","})

\* re.finditer / re.findall of the expression `kind` over s from the 1-based
\* position p on
RECURSIVE FindAll(_, _, _)
FindRest(kind, s, m) ==
    IF m.ok THEN <<m>> \o FindAll(kind, s, m.end + 1) ELSE <<>>
FindAll(kind, s, p) ==
    FindRest(kind, s, FirstMatch([i \in p..Len(s) |-> MatchAt(kind, s, i)]))

\* str.replace(a, b) for single characters
RECURSIVE ReplaceChar(_, _, _)
ReplaceChar(s, a, b) ==
    IF Len(s) = 0 THEN ""
    ELSE IF Len(s) = 1 THEN (IF s = a THEN b ELSE s)
    ELSE LET h == Len(s) \div 2
         IN  ReplaceChar(SubSeq(s, 1, h), a, b) \o ReplaceChar(SubSeq(s, h + 1, Len(s)), a, b)

\* get_text(strip=True) of a heading: its text without the white space around it
Strip(s) ==
    IF \A k \in 1..Len(s) : CharAt(s, k) \in WS THEN ""
    ELSE SubSeq(s, CHOOSE x \in 1..Len(s) :
                       CharAt(s, x) \notin WS /\ \A y \in 1..(x - 1) : CharAt(s, y) \in WS,
                   CHOOSE x \in 1..Len(s) :
                       CharAt(s, x) \notin WS /\ \A y \in (x + 1)..Len(s) : CharAt(s, y) \in WS)

-----------------------------------------------------------------------------
(* Pages.  A page is the sequence of its containers in document order;     *)
(* a container is [tag, heading, body]: the heading element it holds (tag  *)
(* "h3" or "h2", or "" for none) and the text that follows the heading in  *)
(* it.  container.get_text() is heading \o body and soup.get_text() is the *)
(* concatenation of the containers' texts.                                 *)

ContainerText(c) == c.heading \o c.body

RECURSIVE PageTextFrom(_, _)
PageTextFrom(page, k) ==
    IF k > Len(page) THEN "" ELSE ContainerText(page[k]) \o PageTextFrom(page, k + 1)

\* soup.get_text()
PageText(page) == PageTextFrom(page, 1)

\* len(prices)
Size(m) == Cardinality(DOMAIN m)

\* float(price_str) in cents, for a literal that float() accepts
Cents(v) == (v.num * 100) \div v.den

-----------------------------------------------------------------------------
(* The venue parsers *)

\* The fallback taken only when the structure-aware pass found nothing.
scan_if_empty(found, page, cur) ==
    IF Size(found) < 1 THEN extract_prices_from_text(PageText(page), cur) ELSE found

\* if len(prices) < 2: prices = extract_prices_from_text(soup.get_text(), currency)
scan_if_under_two(found, page, cur) ==
    IF Size(found) < 2 THEN extract_prices_from_text(PageText(page), cur) ELSE found

\* parse_wave7 for a card named `label` whose container holds price_matches
wave7_card(acc, label, price_matches, fx) ==
    LET v == ParseFloat(price_matches[1].group)
        price_usd == ToUsdCents(v.num, v.den, fx)
        lvl == categorize_session(label)
    IN  IF price_matches = <<>> THEN acc
        ELSE IF ~v.ok THEN acc
        ELSE IF lvl # None /\ 1000 < price_usd /\ price_usd < 50000
             THEN keep_cheapest(acc, lvl, price_usd)
             ELSE acc

\* The loop body of parse_wave7 for one container
wave7_step(acc, c, fx) ==
    IF c.tag # "h3" THEN acc
    ELSE wave7_card(acc, upper(Strip(c.heading)),
                    FindAll("wave7", ContainerText(c), 1), fx)

RECURSIVE wave7_loop(_, _, _, _)
wave7_loop(acc, page, fx, k) ==
    IF k > Len(page) THEN acc
    ELSE wave7_loop(wave7_step(acc, page[k], fx), page, fx, k + 1)

\* The structure-aware pass of parse_wave7
wave7_pass(page, cur) == wave7_loop(EmptyMap, page, FxOf(cur), 1)

parse_wave7(page, cur) == scan_if_under_two(wave7_pass(page, cur), page, cur)

\* parse_waco for a heading of tier lvl whose block holds starts_at
waco_block(acc, lvl, starts_at, fx) ==
    LET v == ParseFloat(starts_at[1].group) IN
    IF lvl = None THEN acc
    ELSE IF starts_at = <<>> THEN acc
    ELSE IF ~v.ok THEN acc
    ELSE keep_cheapest(acc, lvl, ToUsdCents(v.num, v.den, fx))

\* The loop body of parse_waco for one container
waco_step(acc, c, fx) ==
    IF c.tag # "h2" THEN acc
    ELSE waco_block(acc, categorize_session(upper(Strip(c.heading))),
                    FindAll("waco", ContainerText(c), 1), fx)

RECURSIVE waco_loop(_, _, _, _)
waco_loop(acc, page, fx, k) ==
    IF k > Len(page) THEN acc
    ELSE waco_loop(waco_step(acc, page[k], fx), page, fx, k + 1)

\* The structure-aware pass of parse_waco
waco_pass(page, cur) == waco_loop(EmptyMap, page, FxOf(cur), 1)

parse_waco(page, cur) == scan_if_under_two(waco_pass(page, cur), page, cur)

\* The loop body of parse_revel for the match of 0-based index i
revel_step(acc, i, m) ==
    LET price == Cents(ParseFloat(m.group)) IN
    IF ~(5000 < price /\ price < 50000) THEN acc
    ELSE IF i = 0 THEN Put(acc, "beginner", price)
    ELSE IF i <= 2 THEN (IF "intermediate" \notin DOMAIN acc
                         THEN Put(acc, "intermediate", price) ELSE acc)
    ELSE Put(acc, "advanced", price)

RECURSIVE revel_loop(_, _, _)
revel_loop(acc, ms, k) ==
    IF k > Len(ms) THEN acc ELSE revel_loop(revel_step(acc, k - 1, ms[k]), ms, k + 1)

\* The structure-aware pass of parse_revel
revel_pass(txt) == revel_loop(EmptyMap, FindAll("revel", txt, 1), 1)

\* prices.update({k: v for k, v in generic.items() if k not in prices})
UpdateMissing(m, generic) ==
    [t \in (DOMAIN m) \cup (DOMAIN generic) |-> IF t \in DOMAIN m THEN m[t] ELSE generic[t]]

\* if len(prices) < 2: generic = extract_prices_from_text(text, currency);
\* prices.update(...)
revel_merge_if_under_two(found, page, cur) ==
    IF Size(found) < 2
    THEN UpdateMissing(found, extract_prices_from_text(PageText(page), cur))
    ELSE found

parse_revel(page, cur) == revel_merge_if_under_two(revel_pass(PageText(page)), page, cur)

\* The loop body of parse_palmsprings for one match
palmsprings_step(acc, m) ==
    LET price == Cents(ParseFloat(m.group))
        lvl == IF m.aux = "beginner" THEN "beginner"
               ELSE IF m.aux \in {"advanced", "expert"} THEN "advanced"
               ELSE "intermediate"
    IN  IF 5000 < price /\ price < 50000 /\ lvl \notin DOMAIN acc
        THEN Put(acc, lvl, price) ELSE acc

RECURSIVE palmsprings_loop(_, _, _)
palmsprings_loop(acc, ms, k) ==
    IF k > Len(ms) THEN acc
    ELSE palmsprings_loop(palmsprings_step(acc, ms[k]), ms, k + 1)

\* The structure-aware pass of parse_palmsprings
palmsprings_pass(txt) == palmsprings_loop(EmptyMap, FindAll("palmsprings", txt, 1), 1)

parse_palmsprings(page, cur) ==
    scan_if_under_two(palmsprings_pass(PageText(page)), page, cur)

\* dict.setdefault
SetDefault(m, t, v) == IF t \in DOMAIN m THEN m ELSE Put(m, t, v)

\* The first loop of parse_skudin
RECURSIVE skudin_per_loop(_, _, _)
skudin_per_loop(acc, ms, k) ==
    IF k > Len(ms) THEN acc
    ELSE LET price == Cents(ParseFloat(ms[k].group)) IN
         skudin_per_loop(IF 5000 < price /\ price < 50000
                         THEN SetDefault(acc, "beginner", price) ELSE acc,
                         ms, k + 1)

\* The range of parse_skudin; round((low + high) / 2) is a whole number of
\* dollars
skudin_range(acc, ms) ==
    LET low == Cents(ParseFloat(ms[1].group))
        high == Cents(ParseFloat(ms[1].aux))
    IN  IF ms = <<>> THEN acc
        ELSE IF ~(5000 < low /\ low < 50000) THEN acc
        ELSE SetDefault(SetDefault(SetDefault(acc, "beginner", low), "advanced", high),
                        "intermediate", 100 * RoundHalfEven(low + high, 200))

\* The structure-aware pass of parse_skudin
skudin_pass(txt) ==
    skudin_range(skudin_per_loop(EmptyMap, FindAll("skudin_per", txt, 1), 1),
                 FindAll("skudin_range", txt, 1))

parse_skudin(page, cur) == scan_if_under_two(skudin_pass(PageText(page)), page, cur)

\* text[start:match.end()].upper() with start = max(0, match.start() - 200)
ContextBefore(s, m) == Slice(s, Max(0, m.start - 200), m.end)

\* The loop body of parse_thewave and parse_surftown for the match m, v being
\* float() of its literal
decimal_step(acc, s, fx, lo, hi, m, v) ==
    IF lo * v.den < v.num /\ v.num < hi * v.den
    THEN keep_cheapest(acc, categorize_session(upper(ContextBefore(s, m))),
                       ToUsdCents(v.num, v.den, fx))
    ELSE acc

\* The loop of parse_thewave (lo = 20, hi = 200) and of parse_surftown
\* (lo = 30, hi = 300, the literal with its "," replaced by ".")
RECURSIVE decimal_loop(_, _, _, _, _, _, _)
decimal_loop(acc, s, fx, lo, hi, ms, k) ==
    IF k > Len(ms) THEN acc
    ELSE decimal_loop(decimal_step(acc, s, fx, lo, hi, ms[k],
                                   ParseFloat(ReplaceChar(ms[k].group, ",", "."))),
                      s, fx, lo, hi, ms, k + 1)

\* The structure-aware pass of parse_thewave
thewave_pass(txt, cur) ==
    decimal_loop(EmptyMap, txt, FxOf(cur), 20, 200, FindAll("thewave", txt, 1), 1)

parse_thewave(page, cur) ==
    scan_if_under_two(thewave_pass(PageText(page), cur), page, cur)

\* The structure-aware pass of parse_surftown
surftown_pass(txt, cur) ==
    decimal_loop(EmptyMap, txt, FxOf(cur), 30, 300, FindAll("surftown", txt, 1), 1)

parse_surftown(page, cur) ==
    scan_if_under_two(surftown_pass(PageText(page), cur), page, cur)

parse_generic_price_scan(page, cur) == extract_prices_from_text(PageText(page), cur)

\* The parser table of scrape_park, applied: parser_func(html, currency)
parser_func(parser, page, cur) ==
    CASE parser = "wave7" -> parse_wave7(page, cur)
      [] parser = "waco" -> parse_waco(page, cur)
      [] parser = "revel" -> parse_revel(page, cur)
      [] parser = "palmsprings" -> parse_palmsprings(page, cur)
      [] parser = "skudin" -> parse_skudin(page, cur)
      [] parser = "thewave" -> parse_thewave(page, cur)
      [] parser = "surftown" -> parse_surftown(page, cur)
      [] OTHER -> parse_generic_price_scan(page, cur)

-----------------------------------------------------------------------------
(* Configuration *)

\* known_prices None is the empty table: `if known:` takes both as false.  Of
\* a park's fields the model keeps those the scraping engine reads or stores;
\* name, location, tech and url are copied into the records unread.
PARKS ==
    <<[id |-> "atlantic", parser |-> "wave7", currency |-> "USD",
       known_prices |-> EmptyMap],
      [id |-> "lostshore", parser |-> "wave7", currency |-> "GBP",
       known_prices |-> EmptyMap],
      [id |-> "waco", parser |-> "waco", currency |-> "USD",
       known_prices |-> EmptyMap],
      [id |-> "revel", parser |-> "revel", currency |-> "USD",
       known_prices |-> [beginner |-> 11900, intermediate |-> 12900, advanced |-> 13900]],
      [id |-> "palmsprings", parser |-> "palmsprings", currency |-> "USD",
       known_prices |-> [beginner |-> 10000, intermediate |-> 20000, advanced |-> 20000]],
      [id |-> "skudin", parser |-> "skudin", currency |-> "USD",
       known_prices |-> [beginner |-> 9900, intermediate |-> 14500, advanced |-> 25000]],
      [id |-> "thewave", parser |-> "thewave", currency |-> "GBP",
       known_prices |-> [beginner |-> 5715, intermediate |-> 6350, advanced |-> 6985]],
      [id |-> "surftown", parser |-> "surftown", currency |-> "EUR",
       known_prices |-> [beginner |-> 8611, intermediate |-> 9701, advanced |-> 16241]]>>

ParkIds == {PARKS[k].id : k \in 1..Len(PARKS)}

-----------------------------------------------------------------------------
(* scrape_park *)

\* What the fetch of a park's page can end in: requests.get raising (a time
\* out, a transport error), raise_for_status raising (a non-success status),
\* the parser raising, or the parser returning its map.
FetchKinds == {"timeout", "http_error", "parse_error", "page"}

\* The fallback with every live value overlaid, in the band or not.
reconcile_no_band(known, scraped_prices) ==
    IF known # EmptyMap
    THEN [prices |-> [t \in DOMAIN known \cup DOMAIN scraped_prices |->
                        IF t \in DOMAIN scraped_prices THEN scraped_prices[t] ELSE known[t]],
          source |-> IF scraped_prices # EmptyMap THEN "mixed" ELSE "published"]
    ELSE IF scraped_prices # EmptyMap
    THEN [prices |-> scraped_prices, source |-> "scraped"]
    ELSE [prices |-> EmptyMap, source |-> "failed"]

\* "Fall back to known prices": the part of scrape_park after the try block
reconcile(known, scraped_prices) ==
    IF known # EmptyMap
    THEN [prices |-> [t \in DOMAIN known \cup DOMAIN scraped_prices |->
                        IF t \in DOMAIN scraped_prices
                           /\ 1000 < scraped_prices[t] /\ scraped_prices[t] < 50000
                        THEN scraped_prices[t] ELSE known[t]],
          source |-> IF scraped_prices # EmptyMap THEN "mixed" ELSE "published"]
    ELSE IF scraped_prices # EmptyMap
    THEN [prices |-> scraped_prices, source |-> "scraped"]
    ELSE [prices |-> EmptyMap, source |-> "failed"]

\* scrape_park with the early return of a live map of two tiers left out.
scrape_park_always_reconcile(park, kind, parsed) ==
    LET scraped_prices == IF kind = "page" THEN parsed ELSE EmptyMap
        r == reconcile(park.known_prices, scraped_prices)
    IN  [raised |-> FALSE, scraped_prices |-> scraped_prices,
         prices |-> r.prices, source |-> r.source]

\* scrape_park with `except Exception` left out: a parser's exception leaves
\* the function.
scrape_park_parse_error_escapes(park, kind, parsed) ==
    LET scraped_prices == IF kind = "page" THEN parsed ELSE EmptyMap
        r == reconcile(park.known_prices, scraped_prices)
    IN  IF kind = "parse_error"
        THEN [raised |-> TRUE, scraped_prices |-> EmptyMap,
              prices |-> EmptyMap, source |-> "failed"]
        ELSE IF Size(scraped_prices) >= 2
        THEN [raised |-> FALSE, scraped_prices |-> scraped_prices,
              prices |-> scraped_prices, source |-> "scraped"]
        ELSE [raised |-> FALSE, scraped_prices |-> scraped_prices,
              prices |-> r.prices, source |-> r.source]

\* scrape_park(park) for a fetch that ended in `kind`, `parsed` being what the
\* dispatched parser returns for the page when it returns.  scraped_prices is
\* assigned only when the parser returns; both except clauses fall through
\* to the fallback, so no exception leaves the function (raised = FALSE).
scrape_park(park, kind, parsed) ==
    LET scraped_prices == IF kind = "page" THEN parsed ELSE EmptyMap
        r == reconcile(park.known_prices, scraped_prices)
    IN  IF Size(scraped_prices) >= 2
        THEN [raised |-> FALSE, scraped_prices |-> scraped_prices,
              prices |-> scraped_prices, source |-> "scraped"]
        ELSE [raised |-> FALSE, scraped_prices |-> scraped_prices,
              prices |-> r.prices, source |-> r.source]

-----------------------------------------------------------------------------
(* History and averages *)

\* datetime.now(timezone.utc).isoformat() at the start of the t-th run: two
\* runs a month
Stamp(t) ==
    "2025-0" \o CharAt(Digits, ((t + 1) \div 2) + 1) \o "-0" \o CharAt(Digits, 3 - (t % 2))
        \o "T06:00:00+00:00"

\* The record scrape_all appends for a park
Record(park, timestamp, res) ==
    [park_id |-> park.id, timestamp |-> timestamp,
     prices_usd |-> res.prices, source_type |-> res.source]

NoFile == [exists |-> FALSE, scrapes |-> <<>>, total_scrapes |-> 0, last_updated |-> ""]

\* load_history(): the stored history, or a new one
load_history(f) == IF f.exists THEN f.scrapes ELSE <<>>

\* history["scrapes"] = new_results in place of extend
extend_overwrite(scrapes, new_results) == new_results

\* history["scrapes"].extend(new_results)
extend(scrapes, new_results) == scrapes \o new_results

\* save_history(history) at time `now`
save_history(scrapes, now) ==
    [exists |-> TRUE, scrapes |-> scrapes, total_scrapes |-> Len(scrapes),
     last_updated |-> now]

RECURSIVE Sum(_, _)
Sum(values, k) == IF k > Len(values) THEN 0 ELSE values[k] + Sum(values, k + 1)

Range(values) == {values[k] : k \in 1..Len(values)}
MinOf(values) == CHOOSE x \in Range(values) : \A y \in Range(values) : x <= y
MaxOf(values) == CHOOSE x \in Range(values) : \A y \in Range(values) : x >= y

NoLists == [t \in Tiers |-> <<>>]

\* The first loop of compute_running_averages, for one scrape
accumulate(parks, scrape) ==
    LET pid == scrape.park_id
        mk == SubSeq(scrape.timestamp, 1, 7)
        old == IF pid \in DOMAIN parks THEN parks[pid]
               ELSE [scrape_count |-> 0, first_scrape |-> scrape.timestamp,
                     last_scrape |-> scrape.timestamp, prices |-> NoLists,
                     monthly |-> [m \in {} |-> NoLists], source_types |-> <<>>]
        has == {t \in Tiers : t \in DOMAIN scrape.prices_usd}
        months == IF has = {} THEN DOMAIN old.monthly ELSE DOMAIN old.monthly \cup {mk}
        new == [scrape_count |-> old.scrape_count + 1,
                first_scrape |-> old.first_scrape,
                last_scrape |-> scrape.timestamp,
                prices |-> [t \in Tiers |->
                              IF t \in has THEN Append(old.prices[t], scrape.prices_usd[t])
                              ELSE old.prices[t]],
                monthly |-> [m \in months |->
                               LET before == IF m \in DOMAIN old.monthly
                                             THEN old.monthly[m] ELSE NoLists
                               IN  [t \in Tiers |->
                                      IF m = mk /\ t \in has
                                      THEN Append(before[t], scrape.prices_usd[t])
                                      ELSE before[t]]],
                source_types |-> Append(old.source_types, scrape.source_type)]
    IN  [q \in (DOMAIN parks) \cup {pid} |-> IF q = pid THEN new ELSE parks[q]]

RECURSIVE accumulate_all(_, _, _)
accumulate_all(parks, scrapes, k) ==
    IF k > Len(scrapes) THEN parks
    ELSE accumulate_all(accumulate(parks, scrapes[k]), scrapes, k + 1)

\* The statistics of a tier with "current" taken from the first value.
tier_stats_first(values) ==
    [current |-> values[1],
     running_avg |-> RoundHalfEven(Sum(values, 1), Len(values)),
     min |-> MinOf(values), max |-> MaxOf(values),
     data_points |-> Len(values)]

\* The statistics of a tier from the list of its prices
tier_stats(values) ==
    [current |-> values[Len(values)],
     running_avg |-> RoundHalfEven(Sum(values, 1), Len(values)),
     min |-> MinOf(values), max |-> MaxOf(values),
     data_points |-> Len(values)]

\* The second loop of compute_running_averages, for one park
summarize(park) ==
    [scrape_count |-> park.scrape_count,
     first_scrape |-> park.first_scrape,
     last_scrape |-> park.last_scrape,
     averages |-> [t \in {u \in Tiers : park.prices[u] # <<>>} |->
                     tier_stats(park.prices[t])],
     monthly_averages |->
        [m \in DOMAIN park.monthly |->
           [t \in {u \in Tiers : park.monthly[m][u] # <<>>} |->
              RoundHalfEven(Sum(park.monthly[m][t], 1), Len(park.monthly[m][t]))]],
     source_breakdown |->
        [st \in Range(park.source_types) |->
           Cardinality({k \in 1..Len(park.source_types) : park.source_types[k] = st})]]

compute_running_averages(scrapes) ==
    LET parks == accumulate_all([q \in {} |-> 0], scrapes, 1) IN
    [q \in DOMAIN parks |-> summarize(parks[q])]

-----------------------------------------------------------------------------
(* Pages served to the scraper, written with the venue's currency symbol *)

Txt(body) == [tag |-> "", heading |-> "", body |-> body]
Card(tag, heading, body) == [tag |-> tag, heading |-> heading, body |-> body]

Padding == "                                                                                                                                                                "

PagesFor(sym) ==
    <<  \* nothing to find
        <<Txt("Closed today")>>,
        \* one tier, inside the band
        <<Txt("Beginner " \o sym \o "90")>>,
        \* one tier, on the edge of the band
        <<Txt("Beginner " \o sym \o "500")>>,
        \* two tiers far apart
        <<Txt("Beginner " \o sym \o "95.40"), Txt(Padding),
          Txt("Advanced " \o sym \o "450")>>,
        \* session cards under h3 headings
        <<Card("h3", " Beginner Session ", " from " \o sym \o "60 "),
          Card("h3", "Expert Session", " from " \o sym \o "80 ")>>,
        \* session blocks under h2 headings
        <<Card("h2", "Beginner Surf", " Starts at " \o sym \o "5 "),
          Card("h2", "Pro Barrel Surf", " Starts at " \o sym \o "1,200 ")>>,
        \* levels, a price per person and a range
        <<Txt("Level 1 " \o sym \o "99 Level 2 " \o sym \o "119 Level 3 " \o sym
              \o "139 Lowers " \o sym \o "159 "),
          Txt(sym \o "99 per person, " \o sym \o "99 - " \o sym \o "600")>>,
        \* one tier, inside the band before the conversion
        <<Txt("Advanced " \o sym \o "450")>>
    >>

PageCount == Len(PagesFor("$"))

\* What each park's parser returns for each page
Parsed ==
    [k \in 1..Len(PARKS) |->
        [g \in 1..PageCount |->
            parser_func(PARKS[k].parser, PagesFor(SymbolOf(PARKS[k].currency))[g],
                        PARKS[k].currency)]]

-----------------------------------------------------------------------------
(* Inputs of the function-level specifications *)

MaxLabelParts == 3
MaxTextParts == 3

\* All concatenations of at most n strings of P
RECURSIVE Concats(_, _)
Concats(P, n) ==
    IF n = 0 THEN {""}
    ELSE LET prev == Concats(P, n - 1) IN prev \cup {a \o b : a \in prev, b \in P}

LabelParts ==
    {"Beginner", "Intermediate", "advanced", "Gift", "turns ", "3",
     "Level I", "I", " ", "Pro", "gressive", "x"}
Labels == Concats(LabelParts, MaxLabelParts)

TextParts ==
    {"Beginner ", "advanced ", "$10 ", "$500 ", "$95.50 ", "$103.00 ",
     "£450 ", "€9.99 ", Padding}
Texts == Concats(TextParts, MaxTextParts)
Currencies == {"USD", "GBP", "EUR"}

NoCall == [called |-> FALSE, park |-> 0, kind |-> "", page |-> 0,
           scraped_prices |-> EmptyMap,
           prices |-> EmptyMap, source |-> ""]
NoSummary == [q \in {} |-> 0]

MainOff ==
    /\ run = 0 /\ idx = 0 /\ live = 0
    /\ results = <<>> /\ returned = <<>> /\ last = NoCall
    /\ file = NoFile /\ averages = NoSummary
CategorizeOff == name = "" /\ level = None
ExtractOff == text = "" /\ currency = "USD" /\ prices = EmptyMap
ParseOff == parser_name = "" /\ html = <<>> /\ parse_result = EmptyMap

-----------------------------------------------------------------------------
(* categorize_session applied to a label *)

InitCategorize ==
    /\ pc = "categorize"
    /\ name \in Labels
    /\ level = None
    /\ MainOff /\ ExtractOff /\ ParseOff

Categorize ==
    /\ pc = "categorize"
    /\ level' = categorize_session(name)
    /\ pc' = "categorized"
    /\ UNCHANGED <<run, idx, live, results, returned, last, file, averages,
                   name, text, currency, prices, parser_name, html, parse_result>>

NextCategorize == Categorize
SpecCategorize == InitCategorize /\ [][NextCategorize]_vars

-----------------------------------------------------------------------------
(* extract_prices_from_text applied to a text *)

InitExtract ==
    /\ pc = "extract"
    /\ text \in Texts
    /\ currency \in Currencies
    /\ prices = EmptyMap
    /\ MainOff /\ CategorizeOff /\ ParseOff

Extract ==
    /\ pc = "extract"
    /\ prices' = extract_prices_from_text(text, currency)
    /\ pc' = "extracted"
    /\ UNCHANGED <<run, idx, live, results, returned, last, file, averages,
                   name, level, text, currency, parser_name, html, parse_result>>

NextExtract == Extract
SpecExtract == InitExtract /\ [][NextExtract]_vars

-----------------------------------------------------------------------------
(* The parser table applied to a page *)

\* The names a park's "parser" field can hold: the eight keys of the parser
\* table and one name that is not in it
ParserNames ==
    {"wave7", "waco", "revel", "palmsprings", "skudin", "thewave", "surftown",
     "generic_price_scan", "legacy"}

\* The pages of PagesFor and two more: one tier that the pass of parse_revel
\* names by its position, one price whose cents the venue passes drop
ParsePagesFor(sym) ==
    {PagesFor(sym)[g] : g \in 1..PageCount}
        \cup {<<Txt("Lowers " \o sym \o "159")>>, <<Txt("Beginner " \o sym \o "95.40")>>}

ParsePages == UNION {ParsePagesFor(SYMBOLS[c]) : c \in DOMAIN SYMBOLS}

InitParse ==
    /\ pc = "parse"
    /\ parser_name \in ParserNames
    /\ html \in ParsePages
    /\ currency \in Currencies
    /\ parse_result = EmptyMap
    /\ text = "" /\ prices = EmptyMap
    /\ MainOff /\ CategorizeOff

\* scraped_prices = parser_func(html, park["currency"])
Parse ==
    /\ pc = "parse"
    /\ parse_result' = parser_func(parser_name, html, currency)
    /\ pc' = "parsed"
    /\ UNCHANGED <<run, idx, live, results, returned, last, file, averages,
                   name, level, text, currency, prices, parser_name, html>>

NextParse == Parse
SpecParse == InitParse /\ [][NextParse]_vars

-----------------------------------------------------------------------------
(* compute_running_averages applied to a stored history *)

MaxHistory == 3

\* Records scrape_all can have stored: parks without a known table with the
\* maps of live pages, a park with one with its table, pure and overlaid
HistoryRecords ==
    {[park_id |-> "atlantic", prices_usd |-> m, source_type |-> "scraped"] :
        m \in {[beginner |-> 10000], [beginner |-> 11000], [beginner |-> 10500],
               [beginner |-> 9540, advanced |-> 45000]}}
    \cup
    {[park_id |-> "waco", prices_usd |-> m, source_type |-> "scraped"] :
        m \in {[beginner |-> 9000], [advanced |-> 6000]}}
    \cup
    {[park_id |-> "revel", prices_usd |-> PARKS[4].known_prices,
      source_type |-> "published"],
     [park_id |-> "revel", source_type |-> "mixed",
      prices_usd |-> [beginner |-> 9000, intermediate |-> 12900, advanced |-> 13900]],
     [park_id |-> "revel", source_type |-> "scraped",
      prices_usd |-> [beginner |-> 9900, intermediate |-> 11900, advanced |-> 15900]]}

\* The histories of n runs that stored one record each
RECURSIVE HistoriesOf(_)
HistoriesOf(n) ==
    IF n = 0 THEN {<<>>}
    ELSE {Append(h, [park_id |-> r.park_id, timestamp |-> Stamp(n),
                     prices_usd |-> r.prices_usd, source_type |-> r.source_type]) :
            h \in HistoriesOf(n - 1), r \in HistoryRecords}

Histories == UNION {HistoriesOf(n) : n \in 1..MaxHistory}

InitAverages ==
    /\ pc = "aggregate"
    /\ file \in {save_history(h, Stamp(Len(h))) : h \in Histories}
    /\ run = 0 /\ idx = 0 /\ live = 0
    /\ results = <<>> /\ returned = <<>> /\ last = NoCall
    /\ averages = NoSummary
    /\ CategorizeOff /\ ExtractOff /\ ParseOff

Aggregate ==
    /\ pc = "aggregate"
    /\ averages' = compute_running_averages(load_history(file))
    /\ pc' = "aggregated"
    /\ UNCHANGED <<run, idx, live, results, returned, last, file,
                   name, level, text, currency, prices, parser_name, html, parse_result>>

NextAverages == Aggregate
SpecAverages == InitAverages /\ [][NextAverages]_vars

-----------------------------------------------------------------------------
(* The program: runs of main, one after the other *)

MaxRuns == 2
MaxLive == 1

\* scrape_all's `if prices: results.append(...)` with the test left out.
append_result_always(res_list, park, timestamp, res) ==
    Append(res_list, Record(park, timestamp, res))

\* scrape_all: if prices: results.append({...})
append_result(res_list, park, timestamp, res) ==
    IF res.prices # EmptyMap THEN Append(res_list, Record(park, timestamp, res))
    ELSE res_list

Init ==
    /\ pc = "scrape_all"
    /\ run = 0
    /\ idx = 1
    /\ live = 0
    /\ results = <<>>
    /\ returned = <<>>
    /\ last = NoCall
    /\ file = NoFile
    /\ averages = NoSummary
    /\ CategorizeOff /\ ExtractOff /\ ParseOff

\* The loop body of scrape_all for PARKS[idx], res being what scrape_park
\* returned for a fetch that ended in `kind` (serving page g).  An exception
\* leaving scrape_park would leave scrape_all and main as well.
scrape_all_step(kind, g, res) ==
    IF res.raised
    THEN /\ pc' = "crashed"
         /\ UNCHANGED <<idx, results, returned, last, live>>
    ELSE /\ results' = append_result(results, PARKS[idx], Stamp(run + 1), res)
         /\ returned' = Append(returned, [park_id |-> PARKS[idx].id,
                                          prices |-> res.prices,
                                          source |-> res.source])
         /\ last' = [called |-> TRUE, park |-> idx, kind |-> kind,
                     page |-> IF kind = "page" THEN g ELSE 0,
                     scraped_prices |-> res.scraped_prices,
                     prices |-> res.prices, source |-> res.source]
         /\ live' = IF kind = "page" THEN live + 1 ELSE live
         /\ idx' = idx + 1
         /\ pc' = IF idx = Len(PARKS) THEN "store" ELSE "scrape_all"

\* One iteration of the loop of scrape_all: scrape_park for PARKS[idx], the
\* fetch ending in `kind` and, for a page, serving page g.
ScrapePark ==
    /\ pc = "scrape_all"
    /\ \E kind \in FetchKinds, g \in 1..PageCount :
        /\ kind = "page" => live < MaxLive
        /\ kind # "page" => g = 1
        /\ scrape_all_step(kind, g, scrape_park(PARKS[idx], kind, Parsed[idx][g]))
    /\ UNCHANGED <<run, file, averages, name, level, text, currency, prices>>
    /\ UNCHANGED parseVars

\* The rest of main once scrape_all has returned: load_history, extend,
\* save_history, compute_running_averages and the write of the averages
Store ==
    /\ pc = "store"
    /\ LET history == extend(load_history(file), results) IN
        /\ file' = save_history(history, Stamp(run + 1))
        /\ averages' = compute_running_averages(history)
    /\ run' = run + 1
    /\ pc' = "done"
    /\ UNCHANGED <<idx, live, results, returned, last, name, level, text, currency, prices>>
    /\ UNCHANGED parseVars

\* The scheduler starts main again
StartRun ==
    /\ pc = "done"
    /\ run < MaxRuns
    /\ pc' = "scrape_all"
    /\ idx' = 1
    /\ results' = <<>>
    /\ returned' = <<>>
    /\ UNCHANGED <<run, live, last, file, averages, name, level, text, currency, prices>>
    /\ UNCHANGED parseVars

Next == ScrapePark \/ Store \/ StartRun
Spec == Init /\ [][Next]_vars

-----------------------------------------------------------------------------
(* Properties *)

\* What the dispatched parser returned in the latest call of scrape_park:
\* its map for the page served, nothing when the fetch or the parser raised
LiveOf(call) ==
    IF call.kind = "page" THEN Parsed[call.park][call.page] ELSE EmptyMap

KnownOf(call) == PARKS[call.park].known_prices

InBand(price) == 1000 < price /\ price < 50000

Scrapes(f) == IF f.exists THEN f.scrapes ELSE <<>>

\* C1: when the fetch succeeds and the parser returns a map of two or more
\* tiers, scrape_park returns that map unchanged with source "scraped",
\* whether or not the venue has a known-price table.
LiveOkReturnsParsedMap ==
    (last.called /\ last.kind = "page" /\ Size(LiveOf(last)) >= 2)
        => (last.prices = LiveOf(last) /\ last.source = "scraped")

\* A venue with a known-price table answered with a live map of two tiers.
LiveOkWitness ==
    /\ last.called /\ last.kind = "page"
    /\ Size(LiveOf(last)) >= 2
    /\ KnownOf(last) # EmptyMap
    /\ last.prices # KnownOf(last)

\* C2: with a known-price table and a live result of fewer than two tiers,
\* every tier of the returned map holds the live value if there is one
\* strictly between 10 and 500 USD and the table's value otherwise; with no
\* live value the returned map is the table.
FallbackOverlaysPlausibleLive ==
    (last.called /\ KnownOf(last) # EmptyMap /\ Size(LiveOf(last)) <= 1)
        => /\ DOMAIN last.prices = DOMAIN KnownOf(last) \cup DOMAIN LiveOf(last)
           /\ \A t \in DOMAIN last.prices :
                last.prices[t] =
                    IF t \in DOMAIN LiveOf(last) /\ InBand(LiveOf(last)[t])
                    THEN LiveOf(last)[t] ELSE KnownOf(last)[t]
           /\ LiveOf(last) = EmptyMap => last.prices = KnownOf(last)

\* Live {beginner: 90} over the table {119, 129, 139} gave {90, 129, 139}.
FallbackOverlayWitness ==
    /\ last.called
    /\ LiveOf(last) = [beginner |-> 9000]
    /\ KnownOf(last) = [beginner |-> 11900, intermediate |-> 12900, advanced |-> 13900]
    /\ last.prices = [beginner |-> 9000, intermediate |-> 12900, advanced |-> 13900]

\* C3: on the fallback path the source is "mixed" if a live value was
\* overlaid onto the known table and "published" otherwise.
FallbackSourceTellsOverlay ==
    (last.called /\ KnownOf(last) # EmptyMap /\ Size(LiveOf(last)) <= 1)
        => last.source =
             IF \E t \in DOMAIN LiveOf(last) : InBand(LiveOf(last)[t])
             THEN "mixed" ELSE "published"

\* C4: every price of every stored record lies strictly between 10 and 500
\* USD.
StoredPricesInBand ==
    \A k \in 1..Len(Scrapes(file)) :
        \A t \in DOMAIN Scrapes(file)[k].prices_usd :
            InBand(Scrapes(file)[k].prices_usd[t])

\* C5: scrape_park returns an empty map exactly when it returns "failed",
\* which takes a venue without a known table and without a live value; no
\* record with an empty map or with source "failed" is collected or stored.
NoEmptyOrFailedRecord ==
    /\ \A k \in 1..Len(returned) :
          (returned[k].prices = EmptyMap) <=> (returned[k].source = "failed")
    /\ (last.called /\ last.source = "failed")
          => (KnownOf(last) = EmptyMap /\ LiveOf(last) = EmptyMap)
    /\ \A k \in 1..Len(results) :
          results[k].prices_usd # EmptyMap /\ results[k].source_type # "failed"
    /\ \A k \in 1..Len(Scrapes(file)) :
          /\ Scrapes(file)[k].prices_usd # EmptyMap
          /\ Scrapes(file)[k].source_type # "failed"

\* A run in which a venue failed has been stored.
FailedVenueWitness ==
    /\ pc = "done"
    /\ \E k \in 1..Len(returned) :
          returned[k].source = "failed" /\ returned[k].prices = EmptyMap
    /\ Len(Scrapes(file)) > 0
    /\ Len(Scrapes(file)) < run * Len(PARKS)

\* C6: the history a run saves is the history found before the run followed
\* by the run's results in their order; no other step changes the file.
HistoryAppendOnly ==
    [][ IF pc = "store"
        THEN /\ file'.exists
             /\ file'.scrapes = Scrapes(file) \o results
             /\ file'.total_scrapes = Len(Scrapes(file)) + Len(results)
        ELSE file' = file ]_vars

\* A second run has added its records to those of the first.
SecondRunStoredWitness ==
    /\ pc = "done" /\ run = 2
    /\ Len(results) > 0
    /\ Len(Scrapes(file)) > Len(results)

\* The records of a park that carry a tier, as positions of the history
Carrying(scrapes, pid, t) ==
    {k \in 1..Len(scrapes) :
        scrapes[k].park_id = pid /\ t \in DOMAIN scrapes[k].prices_usd}

RECURSIVE SumOver(_, _, _)
SumOver(scrapes, t, ks) ==
    IF ks = {} THEN 0
    ELSE LET k == CHOOSE x \in ks : TRUE
         IN  scrapes[k].prices_usd[t] + SumOver(scrapes, t, ks \ {k})

\* C7: for every park and tier with a price in the history, current is the
\* price of the last record carrying the tier, data_points their number, min
\* and max the extremes of their prices and running_avg their mean rounded
\* to the cent, between min and max; a tier without a price is absent.
AveragesSummarizeHistory ==
    pc = "aggregated" =>
        \A pid \in ParkIds, t \in Tiers :
            LET scrapes == Scrapes(file)
                ks == Carrying(scrapes, pid, t)
                n == Cardinality(ks)
                total == SumOver(scrapes, t, ks)
            IN  IF ks = {}
                THEN pid \in DOMAIN averages => t \notin DOMAIN averages[pid].averages
                ELSE /\ pid \in DOMAIN averages
                     /\ t \in DOMAIN averages[pid].averages
                     /\ LET a == averages[pid].averages[t] IN
                        /\ \E k \in ks : /\ \A j \in ks : j <= k
                                         /\ a.current = scrapes[k].prices_usd[t]
                        /\ a.data_points = n
                        /\ \E k \in ks : a.min = scrapes[k].prices_usd[t]
                        /\ \E k \in ks : a.max = scrapes[k].prices_usd[t]
                        /\ \A k \in ks : /\ a.min <= scrapes[k].prices_usd[t]
                                         /\ scrapes[k].prices_usd[t] <= a.max
                        /\ 2 * (a.running_avg * n - total) <= n
                        /\ 2 * (total - a.running_avg * n) <= n
                        /\ a.min <= a.running_avg /\ a.running_avg <= a.max

\* Beginner prices 100, 110, 105 of one park gave 105.0, 100, 110, 105, 3.
AveragesWitness ==
    /\ pc = "aggregated"
    /\ Len(Scrapes(file)) = 3
    /\ \A k \in 1..3 : Scrapes(file)[k].park_id = "atlantic"
    /\ Scrapes(file)[1].prices_usd = [beginner |-> 10000]
    /\ Scrapes(file)[2].prices_usd = [beginner |-> 11000]
    /\ Scrapes(file)[3].prices_usd = [beginner |-> 10500]
    /\ averages["atlantic"].averages =
         [beginner |-> [current |-> 10500, running_avg |-> 10500, min |-> 10000,
                        max |-> 11000, data_points |-> 3]]

\* The price tokens of a text for a currency, as extract_prices_from_text
\* finds them
Tokens(s, cur) == PriceFindIter(s, SymbolOf(cur), 1)

\* C8: every price extract_prices_from_text emits for a tier comes from a
\* token whose value lies strictly between 10 and 500 in the source currency
\* (a token of value <= 10 or >= 500 contributes to no tier).
EmittedPricesFromOpenBand ==
    pc = "extracted" =>
        \A t \in DOMAIN prices :
            \E k \in 1..Len(Tokens(text, currency)) :
                LET m == Tokens(text, currency)[k]
                    v == ParseFloat(m.group)
                IN  /\ v.ok
                    /\ 10 * v.den < v.num /\ v.num < 500 * v.den
                    /\ categorize_session(upper(ContextOf(text, m))) = t
                    /\ ToUsdCents(v.num, v.den, FxOf(currency)) = prices[t]

\* C9: categorize_session is a decision list over the upper-cased label:
\* None if a skip word occurs in it, else "advanced" if an advanced word
\* occurs, else "intermediate" if an intermediate word occurs, else
\* "beginner" if a beginner word occurs, else None.
Occurs(words, n) == \E k \in 1..Len(words) : Contains(n, words[k])

CategorizeIsDecisionList ==
    pc = "categorized" =>
        LET n == upper(name)
            skip == Occurs(skip_words, n)
            adv == Occurs(advanced_words, n)
            mid == Occurs(intermediate_words, n)
            beg == Occurs(beginner_words, n)
        IN  /\ skip => level = None
            /\ (~skip /\ adv) => level = "advanced"
            /\ (~skip /\ ~adv /\ mid) => level = "intermediate"
            /\ (~skip /\ ~adv /\ ~mid /\ beg) => level = "beginner"
            /\ (~skip /\ ~adv /\ ~mid /\ ~beg) => level = None

\* A label with an advanced and an intermediate word came out advanced.
CategorizePriorityWitness ==
    /\ pc = "categorized"
    /\ Occurs(advanced_words, upper(name))
    /\ Occurs(intermediate_words, upper(name))
    /\ Occurs(beginner_words, upper(name))
    /\ ~Occurs(skip_words, upper(name))
    /\ level = "advanced"

\* The positions of `returned` whose map is not empty
Kept == {k \in 1..Len(returned) : returned[k].prices # EmptyMap}

\* C10: in every run every park is processed once, in the order of PARKS,
\* whatever its fetch ends in; no exception leaves scrape_park; and the
\* results are the records of the parks that returned a non-empty map, in
\* that order.
EveryParkProcessedInOrder ==
    /\ pc # "crashed"
    /\ pc = "scrape_all" => Len(returned) = idx - 1
    /\ pc \in {"store", "done"} => Len(returned) = Len(PARKS)
    /\ \A k \in 1..Len(returned) : returned[k].park_id = PARKS[k].id
    /\ Len(results) = Cardinality(Kept)
    /\ \A k \in Kept :
          LET r == results[Cardinality({j \in Kept : j <= k})] IN
          /\ r.park_id = PARKS[k].id
          /\ r.prices_usd = returned[k].prices
          /\ r.source_type = returned[k].source

\* A run ended with a parser exception at its last park and with parks that
\* gave no record.
ErrorsContainedWitness ==
    /\ pc = "store"
    /\ last.kind = "parse_error"
    /\ Len(returned) = Len(PARKS)
    /\ \E k \in 1..Len(returned) : returned[k].source = "failed"
    /\ \E k \in 1..Len(returned) : returned[k].source = "scraped"
    /\ Len(results) < Len(PARKS)

VenueParsers ==
    {"wave7", "waco", "revel", "palmsprings", "skudin", "thewave", "surftown"}

\* What the structure-aware pass of a venue parser finds in a page
StructurePass(parser, pg, cur) ==
    CASE parser = "wave7" -> wave7_pass(pg, cur)
      [] parser = "waco" -> waco_pass(pg, cur)
      [] parser = "revel" -> revel_pass(PageText(pg))
      [] parser = "palmsprings" -> palmsprings_pass(PageText(pg))
      [] parser = "skudin" -> skudin_pass(PageText(pg))
      [] parser = "thewave" -> thewave_pass(PageText(pg), cur)
      [] parser = "surftown" -> surftown_pass(PageText(pg), cur)

\* C11 as stated: a venue parser returns the map of its structure-aware pass
\* when that has two or more tiers and otherwise the map that
\* extract_prices_from_text returns for the full text of the page; any other
\* parser name returns the extractor's map.
ParsersFallBackToExtractor ==
    pc = "parsed" =>
        LET generic == extract_prices_from_text(PageText(html), currency) IN
        IF parser_name \in VenueParsers
        THEN LET found == StructurePass(parser_name, html, currency) IN
             IF Size(found) >= 2 THEN parse_result = found
             ELSE parse_result = generic
        ELSE parse_result = generic

\* C11 amended: as above, except that parse_revel, when its pass has fewer
\* than two tiers, keeps the tier of its pass and adds from the extractor's
\* map the tiers its pass lacks.
ParsersFallBackRevelMerges ==
    pc = "parsed" =>
        LET generic == extract_prices_from_text(PageText(html), currency) IN
        IF parser_name \in VenueParsers
        THEN LET found == StructurePass(parser_name, html, currency) IN
             IF Size(found) >= 2 THEN parse_result = found
             ELSE IF parser_name = "revel"
             THEN parse_result =
                    [t \in DOMAIN found \cup DOMAIN generic |->
                        IF t \in DOMAIN found THEN found[t] ELSE generic[t]]
             ELSE parse_result = generic
        ELSE parse_result = generic

\* parse_revel has kept the one tier of its pass beside the extractor's map
RevelMergeWitness ==
    /\ pc = "parsed"
    /\ parser_name = "revel"
    /\ Size(StructurePass("revel", html, currency)) = 1
    /\ parse_result # extract_prices_from_text(PageText(html), currency)
    /\ Size(parse_result) = 2

\* The USD values of the tokens of s whose context window categorizes to the
\* tier t and whose value lies in the band from 10 to 500 of the source
\* currency, its two ends counted in (closed) or not
Candidates(s, cur, t, closed) ==
    {ToUsdCents(ParseFloat(Tokens(s, cur)[k].group).num,
                ParseFloat(Tokens(s, cur)[k].group).den, FxOf(cur)) :
        k \in {j \in 1..Len(Tokens(s, cur)) :
                 LET m == Tokens(s, cur)[j]
                     v == ParseFloat(m.group)
                 IN  /\ v.ok
                     /\ IF closed
                        THEN 10 * v.den <= v.num /\ v.num <= 500 * v.den
                        ELSE 10 * v.den < v.num /\ v.num < 500 * v.den
                     /\ categorize_session(upper(ContextOf(s, m))) = t}}

\* The minimum rule over the tokens extract_prices_from_text accepts (the
\* band with both ends counted in, line 362): holds.
ExtractKeepsMinimumOfAccepted ==
    pc = "extracted" =>
        \A t \in Tiers :
            /\ t \in DOMAIN prices <=> Candidates(text, currency, t, TRUE) # {}
            /\ t \in DOMAIN prices =>
                  /\ prices[t] \in Candidates(text, currency, t, TRUE)
                  /\ \A c \in Candidates(text, currency, t, TRUE) : prices[t] <= c

\* C12: the price extract_prices_from_text returns for a tier is the least
\* of the USD values of the in-band tokens (strictly between 10 and 500)
\* whose context window categorizes to that tier, and a tier is in the result
\* exactly when there is such a token; the order of the tokens plays no part.
ExtractKeepsMinimumOfInBand ==
    pc = "extracted" =>
        \A t \in Tiers :
            /\ t \in DOMAIN prices <=> Candidates(text, currency, t, FALSE) # {}
            /\ t \in DOMAIN prices =>
                  /\ prices[t] \in Candidates(text, currency, t, FALSE)
                  /\ \A c \in Candidates(text, currency, t, FALSE) : prices[t] <= c

=============================================================================
